---- MODULE Spec2Model ----
(***************************************************************************)
(* Lifetime and initialization-state management of the SDL2_ttf wrapper:   *)
(* the free functions init / was_inited / quit, Font and LoaderRWops of    *)
(* lib.rs, and Sdl2TtfContext / init / has_been_initialized of context.rs. *)
(* The native library is represented by its initialization counter and by  *)
(* a record of the TTF_CloseFont calls made on every font handle.          *)
(***************************************************************************)
EXTENDS Integers, FiniteSets, Sequences, TLC

\* ----------------------------------------------------------------- bounds
MaxFonts == 2
MaxRWops == 1
MaxCtx == 2
MaxCalls == 2
NThreads == 2

FontIds == 1..MaxFonts
RWopsIds == 1..MaxRWops
CtxIds == 1..MaxCtx
Threads == 1..NThreads

VARIABLES
    TTF_initialized,  \* the native library's initialization counter
    ctx,              \* Sdl2TtfContext values: "unused", "alive", "dropped"
    fonts,            \* Font values and what happened to their native handle
    rwops,            \* RWops values: "unused", "alive", "owned", "dropped"
    inited,           \* a successful init has happened and was not undone
    last,             \* the last operation and what it returned
    pc,               \* per thread: position inside a concurrent init()
    seen,             \* per thread: the counter value TTF_Init read
    calls,            \* per thread: init() calls started
    held,             \* per thread: Sdl2TtfContext values it holds
    tret              \* per thread: what its last init() returned

vars == <<TTF_initialized, ctx, fonts, rwops, inited, last,
          pc, seen, calls, held, tret>>
thrvars == <<pc, seen, calls, held, tret>>

\* A Font value (st, api, owned, rw, ownsRw, ctx) and its native handle:
\* torn = the library was shut down while the handle was open, closes = the
\* TTF_CloseFont calls made on it, closeInit = the counter at the last such
\* call, closeTorn = such a call was made on the torn handle.
NoFont == [st |-> "unused", api |-> "none", owned |-> FALSE,
           rw |-> 0, ownsRw |-> FALSE, ctx |-> 0, torn |-> FALSE,
           closes |-> 0, closeInit |-> -1, closeTorn |-> FALSE]

Init ==
    /\ TTF_initialized = 0
    /\ ctx = [c \in CtxIds |-> "unused"]
    /\ fonts = [f \in FontIds |-> NoFont]
    /\ rwops = [r \in RWopsIds |-> "unused"]
    /\ inited = FALSE
    /\ last = [op |-> "start", ret |-> "none"]
    /\ pc = [t \in Threads |-> "idle"]
    /\ seen = [t \in Threads |-> 0]
    /\ calls = [t \in Threads |-> 0]
    /\ held = [t \in Threads |-> 0]
    /\ tret = [t \in Threads |-> "none"]

\* ------------------------------------------------------ the native library
\* TTF_WasInit returns the counter itself.
TTF_WasInit == TTF_initialized

\* TTF_Init, having read the counter as n: starts FreeType when n is 0
\* (which may fail) and on success stores n + 1; returns 0 on success, -1 on
\* failure.
TTF_Init_status(n, ok) == IF n > 0 \/ ok THEN 0 ELSE -1
TTF_Init_count(n, ok) == IF TTF_Init_status(n, ok) = 0 THEN n + 1 ELSE n

\* TTF_Quit: decrements the counter when it is positive; when it reaches 0
\* FreeType is shut down, which destroys the faces of all open handles.
TTF_Quit_count == IF TTF_initialized > 0 THEN TTF_initialized - 1 ELSE 0
TTF_Quit_fonts ==
    IF TTF_initialized = 1
    THEN [f \in DOMAIN fonts |->
            IF fonts[f].st = "alive" THEN [fonts[f] EXCEPT !.torn = TRUE]
            ELSE fonts[f]]
    ELSE fonts

\* TTF_OpenFont*: NULL unless the library is initialized and the data is good.
TTF_OpenFont_ok(good) == TTF_initialized > 0 /\ good

\* TTF_CloseFont on the handle of font record fr: one more close call,
\* remembered with the counter at the time of the call and with whether the
\* handle was torn.
TTF_CloseFont(fr) ==
    [fr EXCEPT !.closes = @ + 1,
               !.closeInit = TTF_initialized,
               !.closeTorn = fr.torn]

\* What is left of a Font value after its drop: the history of its handle.
Dropped(fr) ==
    [NoFont EXCEPT !.st = "dropped", !.torn = fr.torn, !.closes = fr.closes,
                   !.closeInit = fr.closeInit, !.closeTorn = fr.closeTorn]

\* ------------------------------------------------------------- allocation
FreshFont(f) ==
    /\ fonts[f].st = "unused"
    /\ \A g \in FontIds : g < f => fonts[g].st # "unused"
FreshRWops(r) ==
    /\ rwops[r] = "unused"
    /\ \A q \in RWopsIds : q < r => rwops[q] # "unused"
FreshCtx(c) ==
    /\ ctx[c] = "unused"
    /\ \A d \in CtxIds : d < c => ctx[d] # "unused"

AliveCtx == {c \in CtxIds : ctx[c] = "alive"}

\* ----------------------------------------------------------------- lib.rs
was_inited == TTF_WasInit = 1

\* init() without the TTF_WasInit test
lib_init_unguarded(ok) ==
    /\ TTF_initialized' = TTF_Init_count(TTF_initialized, ok)
    /\ inited' = IF TTF_Init_status(TTF_initialized, ok) = 0 THEN TRUE ELSE inited
    /\ last' = [op |-> "init",
                ret |-> IF TTF_Init_status(TTF_initialized, ok) = 0 THEN "true" ELSE "false"]
    /\ UNCHANGED <<ctx, fonts, rwops, thrvars>>

\* pub fn init() -> bool
lib_init(ok) ==
    /\ IF TTF_WasInit = 1
       THEN /\ UNCHANGED TTF_initialized
            /\ inited' = TRUE
            /\ last' = [op |-> "init", ret |-> "true"]
       ELSE /\ TTF_initialized' = TTF_Init_count(TTF_initialized, ok)
            /\ inited' = IF TTF_Init_status(TTF_initialized, ok) = 0 THEN TRUE ELSE inited
            /\ last' = [op |-> "init",
                        ret |-> IF TTF_Init_status(TTF_initialized, ok) = 0 THEN "true" ELSE "false"]
    /\ UNCHANGED <<ctx, fonts, rwops, thrvars>>

\* quit() that never reaches TTF_Quit
quit_noop ==
    /\ inited' = FALSE
    /\ last' = [op |-> "quit", ret |-> "unit"]
    /\ UNCHANGED <<TTF_initialized, ctx, fonts, rwops, thrvars>>

\* pub fn quit()
quit ==
    /\ TTF_initialized' = TTF_Quit_count
    /\ fonts' = TTF_Quit_fonts
    /\ inited' = FALSE
    /\ last' = [op |-> "quit", ret |-> "unit"]
    /\ UNCHANGED <<ctx, rwops, thrvars>>

\* Font::from_file / Font::from_file_index
from_file(f, good) ==
    /\ FreshFont(f)
    /\ IF TTF_OpenFont_ok(good)
       THEN /\ fonts' = [fonts EXCEPT ![f] =
                   [NoFont EXCEPT !.st = "alive", !.api = "lib", !.owned = TRUE]]
            /\ last' = [op |-> "from_file", ret |-> "Ok"]
       ELSE /\ UNCHANGED fonts
            /\ last' = [op |-> "from_file", ret |-> "Err"]
    /\ UNCHANGED <<TTF_initialized, ctx, rwops, inited, thrvars>>

\* LoaderRWops::load_font / load_font_index for RWops (freesrc = 0, &self)
load_font(r, f, good) ==
    /\ rwops[r] = "alive"
    /\ FreshFont(f)
    /\ IF TTF_OpenFont_ok(good)
       THEN /\ fonts' = [fonts EXCEPT ![f] =
                   [NoFont EXCEPT !.st = "alive", !.api = "lib", !.owned = TRUE,
                                  !.rw = r]]
            /\ last' = [op |-> "load_font", ret |-> "Ok"]
       ELSE /\ UNCHANGED fonts
            /\ last' = [op |-> "load_font", ret |-> "Err"]
    /\ UNCHANGED <<TTF_initialized, ctx, rwops, inited, thrvars>>

\* Drop for Font without the TTF_WasInit test
Font_drop_unguarded(f) ==
    /\ fonts[f].st = "alive"
    /\ fonts[f].api = "lib"
    /\ fonts' = [fonts EXCEPT ![f] =
            Dropped(IF fonts[f].owned
                    THEN TTF_CloseFont(fonts[f]) ELSE fonts[f])]
    /\ last' = [op |-> "Font_drop", ret |-> "unit"]
    /\ UNCHANGED <<TTF_initialized, ctx, rwops, inited, thrvars>>

\* impl Drop for Font
Font_drop(f) ==
    /\ fonts[f].st = "alive"
    /\ fonts[f].api = "lib"
    /\ fonts' = [fonts EXCEPT ![f] =
            Dropped(IF fonts[f].owned /\ TTF_WasInit = 1
                    THEN TTF_CloseFont(fonts[f]) ELSE fonts[f])]
    /\ last' = [op |-> "Font_drop", ret |-> "unit"]
    /\ UNCHANGED <<TTF_initialized, ctx, rwops, inited, thrvars>>

\* The caller creates an RWops data source ...
RWops_new(r) ==
    /\ FreshRWops(r)
    /\ rwops' = [rwops EXCEPT ![r] = "alive"]
    /\ last' = [op |-> "RWops_new", ret |-> "unit"]
    /\ UNCHANGED <<TTF_initialized, ctx, fonts, inited, thrvars>>

\* ... and lets it go out of scope. No Font of lib.rs borrows it (Font has no
\* lifetime parameter); an RWops moved into a Font of context.rs is "owned"
\* and no longer the caller's to drop.
RWops_drop(r) ==
    /\ rwops[r] = "alive"
    /\ rwops' = [rwops EXCEPT ![r] = "dropped"]
    /\ last' = [op |-> "RWops_drop", ret |-> "unit"]
    /\ UNCHANGED <<TTF_initialized, ctx, fonts, inited, thrvars>>

NextLib ==
    \/ \E ok \in BOOLEAN : lib_init(ok)
    \/ quit
    \/ \E f \in FontIds, good \in BOOLEAN : from_file(f, good)
    \/ \E r \in RWopsIds, f \in FontIds, good \in BOOLEAN : load_font(r, f, good)
    \/ \E f \in FontIds : Font_drop(f)
    \/ \E r \in RWopsIds : RWops_new(r)
    \/ \E r \in RWopsIds : RWops_drop(r)

SpecLib == Init /\ [][NextLib]_vars
\* ------------------------------------------------------------- context.rs
has_been_initialized == TTF_WasInit = 1

\* init() without the TTF_WasInit test
context_init_unguarded(ok) ==
    /\ IF TTF_Init_status(TTF_initialized, ok) = 0
       THEN /\ \E c \in CtxIds : FreshCtx(c) /\ ctx' = [ctx EXCEPT ![c] = "alive"]
            /\ TTF_initialized' = TTF_Init_count(TTF_initialized, ok)
            /\ inited' = TRUE
            /\ last' = [op |-> "context_init", ret |-> "Ok"]
       ELSE /\ TTF_initialized' = TTF_Init_count(TTF_initialized, ok)
            /\ UNCHANGED <<ctx, inited>>
            /\ last' = [op |-> "context_init", ret |-> "InitializationError"]
    /\ UNCHANGED <<fonts, rwops, thrvars>>

\* pub fn init() -> Result<Sdl2TtfContext, InitError>
context_init(ok) ==
    /\ IF TTF_WasInit = 1
       THEN /\ UNCHANGED <<TTF_initialized, ctx, inited>>
            /\ last' = [op |-> "context_init", ret |-> "AlreadyInitializedError"]
       ELSE IF TTF_Init_status(TTF_initialized, ok) = 0
       THEN /\ \E c \in CtxIds : FreshCtx(c) /\ ctx' = [ctx EXCEPT ![c] = "alive"]
            /\ TTF_initialized' = TTF_Init_count(TTF_initialized, ok)
            /\ inited' = TRUE
            /\ last' = [op |-> "context_init", ret |-> "Ok"]
       ELSE /\ TTF_initialized' = TTF_Init_count(TTF_initialized, ok)
            /\ UNCHANGED <<ctx, inited>>
            /\ last' = [op |-> "context_init", ret |-> "InitializationError"]
    /\ UNCHANGED <<fonts, rwops, thrvars>>

\* A Font returned by load_font / load_font_at_index borrows the context
\* (&'a self), so the context cannot be dropped before it.
BorrowedBy(c) == {f \in FontIds : fonts[f].st = "alive" /\ fonts[f].ctx = c}

\* Drop for Sdl2TtfContext that never reaches TTF_Quit
Sdl2TtfContext_drop_noquit(c) ==
    /\ ctx[c] = "alive"
    /\ BorrowedBy(c) = {}
    /\ ctx' = [ctx EXCEPT ![c] = "dropped"]
    /\ inited' = FALSE
    /\ last' = [op |-> "Sdl2TtfContext_drop", ret |-> "unit"]
    /\ UNCHANGED <<TTF_initialized, fonts, rwops, thrvars>>

\* impl Drop for Sdl2TtfContext
Sdl2TtfContext_drop(c) ==
    /\ ctx[c] = "alive"
    /\ BorrowedBy(c) = {}
    /\ ctx' = [ctx EXCEPT ![c] = "dropped"]
    /\ TTF_initialized' = TTF_Quit_count
    /\ inited' = FALSE
    /\ fonts' = TTF_Quit_fonts
    /\ last' = [op |-> "Sdl2TtfContext_drop", ret |-> "unit"]
    /\ UNCHANGED <<rwops, thrvars>>

\* font::internal_load_font / internal_load_font_at_index: a Font without RWops
internal_load_font(c) ==
    [NoFont EXCEPT !.st = "alive", !.api = "ctx", !.owned = TRUE,
                   !.ctx = c]

\* font::internal_load_font_from_ll(raw, Some(rwops)): the Font owns the RWops
internal_load_font_from_ll(r) ==
    [NoFont EXCEPT !.st = "alive", !.api = "ctx", !.owned = TRUE,
                   !.rw = r, !.ownsRw = TRUE]

\* Sdl2TtfContext::load_font / load_font_at_index
ctx_load_font(c, f, good) ==
    /\ ctx[c] = "alive"
    /\ FreshFont(f)
    /\ IF TTF_OpenFont_ok(good)
       THEN /\ fonts' = [fonts EXCEPT ![f] = internal_load_font(c)]
            /\ last' = [op |-> "ctx_load_font", ret |-> "Ok"]
       ELSE /\ UNCHANGED fonts
            /\ last' = [op |-> "ctx_load_font", ret |-> "Err"]
    /\ UNCHANGED <<TTF_initialized, ctx, rwops, inited, thrvars>>

\* Sdl2TtfContext::load_font_from_rwops / load_font_at_index_from_rwops:
\* the RWops is taken by value; the Font<'b> does not borrow the context.
load_font_from_rwops(c, r, f, good) ==
    /\ ctx[c] = "alive"
    /\ rwops[r] = "alive"
    /\ FreshFont(f)
    /\ IF TTF_OpenFont_ok(good)
       THEN /\ fonts' = [fonts EXCEPT ![f] = internal_load_font_from_ll(r)]
            /\ rwops' = [rwops EXCEPT ![r] = "owned"]
            /\ last' = [op |-> "load_font_from_rwops", ret |-> "Ok"]
       ELSE /\ UNCHANGED fonts
            /\ rwops' = [rwops EXCEPT ![r] = "dropped"]
            /\ last' = [op |-> "load_font_from_rwops", ret |-> "Err"]
    /\ UNCHANGED <<TTF_initialized, ctx, inited, thrvars>>

\* impl Drop for font::Font: close the handle while the library is
\* initialized, then release the owned RWops.
ctx_Font_drop(f) ==
    /\ fonts[f].st = "alive"
    /\ fonts[f].api = "ctx"
    /\ fonts' = [fonts EXCEPT ![f] =
            Dropped(IF TTF_WasInit = 1
                    THEN TTF_CloseFont(fonts[f]) ELSE fonts[f])]
    /\ rwops' = IF fonts[f].ownsRw
                THEN [rwops EXCEPT ![fonts[f].rw] = "dropped"]
                ELSE rwops
    /\ last' = [op |-> "ctx_Font_drop", ret |-> "unit"]
    /\ UNCHANGED <<TTF_initialized, ctx, inited, thrvars>>

NextCtx ==
    \/ \E ok \in BOOLEAN : context_init(ok)
    \/ \E c \in CtxIds : Sdl2TtfContext_drop(c)
    \/ \E c \in CtxIds, f \in FontIds, good \in BOOLEAN : ctx_load_font(c, f, good)
    \/ \E c \in CtxIds, r \in RWopsIds, f \in FontIds, good \in BOOLEAN :
          load_font_from_rwops(c, r, f, good)
    \/ \E f \in FontIds : ctx_Font_drop(f)
    \/ \E r \in RWopsIds : RWops_new(r)
    \/ \E r \in RWopsIds : RWops_drop(r)

SpecCtx == Init /\ [][NextCtx]_vars

\* Both interfaces driven by one single-threaded caller.
Next == NextLib \/ NextCtx

Spec == Init /\ [][Next]_vars
\* ----------------------------------------------- init() called from threads
\* Both init() functions are safe functions any thread may call.  Each is two
\* native calls, TTF_WasInit and then TTF_Init, and TTF_Init increments the
\* counter with a plain read followed by a plain write; other threads run in
\* between.

\* lib.rs init(): if ffi::TTF_WasInit() == 1 { true } else ...
thread_lib_init_check(t) ==
    /\ pc[t] = "idle"
    /\ calls[t] < MaxCalls
    /\ calls' = [calls EXCEPT ![t] = @ + 1]
    /\ IF TTF_WasInit = 1
       THEN /\ tret' = [tret EXCEPT ![t] = "true"]
            /\ inited' = TRUE
            /\ UNCHANGED pc
       ELSE /\ pc' = [pc EXCEPT ![t] = "lib_init"]
            /\ UNCHANGED <<tret, inited>>
    /\ UNCHANGED <<TTF_initialized, ctx, fonts, rwops, last, seen, held>>

\* context.rs init(): if ffi::TTF_WasInit() == 1 { Err(AlreadyInitializedError) } else ...
thread_context_init_check(t) ==
    /\ pc[t] = "idle"
    /\ calls[t] < MaxCalls
    /\ calls' = [calls EXCEPT ![t] = @ + 1]
    /\ IF TTF_WasInit = 1
       THEN /\ tret' = [tret EXCEPT ![t] = "AlreadyInitializedError"]
            /\ UNCHANGED pc
       ELSE /\ pc' = [pc EXCEPT ![t] = "context_init"]
            /\ UNCHANGED tret
    /\ UNCHANGED <<TTF_initialized, ctx, fonts, rwops, inited, last, seen, held>>

\* ffi::TTF_Init() reads the counter ...
thread_TTF_Init_read(t) ==
    /\ pc[t] \in {"lib_init", "context_init"}
    /\ seen' = [seen EXCEPT ![t] = TTF_initialized]
    /\ pc' = [pc EXCEPT ![t] = IF pc[t] = "lib_init" THEN "lib_incr" ELSE "context_incr"]
    /\ UNCHANGED <<TTF_initialized, ctx, fonts, rwops, inited, last, calls, held, tret>>

\* ... and stores it; lib.rs init() returns ffi::TTF_Init() == 0
thread_lib_init_return(t, ok) ==
    /\ pc[t] = "lib_incr"
    /\ TTF_initialized' = IF TTF_Init_status(seen[t], ok) = 0
                          THEN TTF_Init_count(seen[t], ok) ELSE TTF_initialized
    /\ tret' = [tret EXCEPT ![t] =
                   IF TTF_Init_status(seen[t], ok) = 0 THEN "true" ELSE "false"]
    /\ inited' = IF TTF_Init_status(seen[t], ok) = 0 THEN TRUE ELSE inited
    /\ pc' = [pc EXCEPT ![t] = "idle"]
    /\ UNCHANGED <<ctx, fonts, rwops, last, seen, calls, held>>

\* ... and stores it; context.rs init() returns Ok(Sdl2TtfContext) on 0
thread_context_init_return(t, ok) ==
    /\ pc[t] = "context_incr"
    /\ TTF_initialized' = IF TTF_Init_status(seen[t], ok) = 0
                          THEN TTF_Init_count(seen[t], ok) ELSE TTF_initialized
    /\ tret' = [tret EXCEPT ![t] =
                   IF TTF_Init_status(seen[t], ok) = 0 THEN "Ok" ELSE "InitializationError"]
    /\ held' = [held EXCEPT ![t] =
                   IF TTF_Init_status(seen[t], ok) = 0 THEN @ + 1 ELSE @]
    /\ inited' = IF TTF_Init_status(seen[t], ok) = 0 THEN TRUE ELSE inited
    /\ pc' = [pc EXCEPT ![t] = "idle"]
    /\ UNCHANGED <<ctx, fonts, rwops, last, seen, calls>>

\* a thread lets one of its Sdl2TtfContext values go out of scope
thread_Sdl2TtfContext_drop(t) ==
    /\ pc[t] = "idle"
    /\ held[t] > 0
    /\ held' = [held EXCEPT ![t] = @ - 1]
    /\ TTF_initialized' = TTF_Quit_count
    /\ inited' = FALSE
    /\ UNCHANGED <<ctx, fonts, rwops, last, pc, seen, calls, tret>>

NextConc ==
    \/ \E t \in Threads : thread_lib_init_check(t)
    \/ \E t \in Threads : thread_context_init_check(t)
    \/ \E t \in Threads : thread_TTF_Init_read(t)
    \/ \E t \in Threads, ok \in BOOLEAN : thread_lib_init_return(t, ok)
    \/ \E t \in Threads, ok \in BOOLEAN : thread_context_init_return(t, ok)
    \/ \E t \in Threads : thread_Sdl2TtfContext_drop(t)

SpecConc == Init /\ [][NextConc]_vars

RECURSIVE HeldUpTo(_)
HeldUpTo(n) == IF n = 0 THEN 0 ELSE held[n] + HeldUpTo(n - 1)
ContextsHeld == HeldUpTo(NThreads)
\* ================================================================= claims
NativeInitialized == TTF_initialized > 0

\* C1: in every single-threaded sequence of wrapper operations the native
\* initialization count stays in {0, 1}: TTF_Init is never called while the
\* library is already initialized.
C1_CountIsZeroOrOne == TTF_initialized \in {0, 1}

\* C1 witness: init() was called while the library was initialized, and was
\* turned away.
C1_Witness ==
    /\ last = [op |-> "context_init", ret |-> "AlreadyInitializedError"]
    /\ TTF_initialized = 1

\* C2: every loaded font has TTF_CloseFont called on its handle exactly once,
\* and that call is made by the drop of the Font: no call while the Font is
\* alive, exactly one once it is dropped.
C2_ClosedExactlyOnceAtDrop ==
    \A f \in FontIds :
        /\ fonts[f].st = "alive" => fonts[f].closes = 0
        /\ fonts[f].st = "dropped" => fonts[f].closes = 1

\* C3: TTF_CloseFont is never called while the native library is not
\* initialized; a Font dropped in that state gets no close call.
C3_NoCloseWhenUninitialized ==
    \A f \in FontIds : fonts[f].closes > 0 => fonts[f].closeInit >= 1

\* C3 witness: a Font of lib.rs was just dropped after quit() and its handle
\* got no close call.
C3_Witness ==
    /\ last.op = "Font_drop"
    /\ TTF_initialized = 0
    /\ \E f \in FontIds :
          fonts[f].st = "dropped" /\ fonts[f].torn /\ fonts[f].closes = 0

\* C4: no font loaded from an RWops is alive while that RWops has already
\* been dropped.
C4_RWopsOutlivesFont ==
    \A f \in FontIds :
        (fonts[f].st = "alive" /\ fonts[f].rw # 0) => rwops[fonts[f].rw] # "dropped"

\* C5: a live Font implies that the native library is initialized.
C5_LiveFontImpliesInitialized ==
    \A f \in FontIds : fonts[f].st = "alive" => NativeInitialized

\* C6: the drop of an Sdl2TtfContext leaves the native library uninitialized
\* (has_been_initialized() is false), and an init() that follows it is not
\* turned away: it returns a new context unless the native start-up fails.
C6_ContextDropCleansUp ==
    [][ /\ last'.op = "Sdl2TtfContext_drop"
           => (TTF_initialized' = 0 /\ ~has_been_initialized')
        /\ (last.op = "Sdl2TtfContext_drop" /\ last'.op = "context_init")
           => /\ last'.ret \in {"Ok", "InitializationError"}
              /\ last'.ret = "Ok"
                 => /\ has_been_initialized'
                    /\ \E c \in CtxIds : ctx[c] = "unused" /\ ctx'[c] = "alive"
      ]_vars

\* C6 witness: a context was dropped and a later init() returned a new one.
C6_Witness ==
    /\ last = [op |-> "context_init", ret |-> "Ok"]
    /\ ctx[1] = "dropped"
    /\ ctx[2] = "alive"
    /\ has_been_initialized

\* C7: with only init() calls and context drops (and font loads), an init()
\* made while a context is alive returns AlreadyInitializedError, creates no
\* context and leaves the counter alone; at most one context is ever alive.
C7_SingleContext ==
    [][ /\ Cardinality(AliveCtx') <= 1
        /\ (last'.op = "context_init" /\ AliveCtx # {})
           => /\ last'.ret = "AlreadyInitializedError"
              /\ ctx' = ctx
              /\ TTF_initialized' = TTF_initialized
      ]_vars

\* C7 witness: init() was turned away while a context was alive.
C7_Witness ==
    /\ last = [op |-> "context_init", ret |-> "AlreadyInitializedError"]
    /\ Cardinality(AliveCtx) = 1

\* C8: was_inited() and has_been_initialized() are true exactly when the
\* native library is initialized, which is exactly when a successful init has
\* happened and was not undone by quit() or a context drop.
C8_QueriesExact ==
    /\ was_inited = NativeInitialized
    /\ has_been_initialized = NativeInitialized
    /\ NativeInitialized = inited

\* C8 witness: quit() was the last call, and the queries report false.
C8_Witness ==
    /\ last.op = "quit"
    /\ ~was_inited
    /\ ~has_been_initialized
    /\ ~inited

\* C9: with init() called from two threads at once the library is
\* initialized at most once, at most one Sdl2TtfContext is held, and once
\* the calls are over (with a successful one not undone) the queries report
\* true.
C9_InitGuardThreadSafe ==
    /\ TTF_initialized <= 1
    /\ ContextsHeld <= 1
    /\ ((\A t \in Threads : pc[t] = "idle") /\ inited)
       => (was_inited /\ has_been_initialized)

\* C10: TTF_CloseFont is never called on a handle that was opened before a
\* shutdown of the native library.
C10_NoCloseAcrossSessions ==
    \A f \in FontIds : ~fonts[f].closeTorn
====
